---- MODULE Spec2Model ----
(***************************************************************************)
(* Model of dadosabertos_scraper/scrape.py: the per-license probe, the     *)
(* page planning with the global file-naming counter, the wave of          *)
(* semaphore-gated fetch_and_save coroutines joined by asyncio.gather, and *)
(* the KeyboardInterrupt handling of cli_entrypoint.                       *)
(***************************************************************************)
EXTENDS Integers, Sequences, FiniteSets, TLC

VARIABLES
    page_size,                  \* args.page_size
    concurrency,                \* args.concurrency
    retries,                    \* args.retries
    pc,                         \* position of main: probe, gather, done, crashed, interrupted
    lic,                        \* 1-based position of license_filter in LICENSES
    file_naming_start_index,    \* the global counter of main
    total_records_for_license,  \* result of the last get_total_records call
    response,                   \* what the last probe request met
    semaphore,                  \* free permits of the asyncio.Semaphore of the wave
    tasks,                      \* the pages planned for the current license
    wk,                         \* the fetch_and_save coroutine of each task
    files,                      \* output directory: file name -> content
    hist,                       \* one record per license the loop has left
    faults                      \* failures met so far in the run

vars == <<page_size, concurrency, retries, pc, lic, file_naming_start_index,
          total_records_for_license, response, semaphore, tasks, wk, files,
          hist, faults>>

\* ---------------------------------------------------------------- bounds
\* The arguments range over 1..MaxPageSize, 0..MaxConcurrency, 0..MaxRetries.
MaxPageSize == 2
MaxConcurrency == 2
MaxRetries == 2
\* The requests (probe or page) and saves that fail in one run.
MaxFaults == 1
\* The highest file index a probed count may reserve; counts go up to it.
MaxIndex == 3

\* ------------------------------------------------------------- constants
LICENSES == <<"cc-by", "cc-zero", "odc-odbl", "odc-pddl">>
retry_delay == 5
\* Optional[int]: None is the empty sequence, the integer n is <<n>>.
None == <<>>
Some(n) == <<n>>
Int_(opt) == opt[1]

\* What the probe request can meet: a body with totalRegistros, or one of
\* the failures of lines 23-26.
ProbeFailures == {"RequestError", "HTTPStatusError", "JSONDecodeError",
                  "KeyError", "TypeError"}
\* The values totalRegistros is drawn from (the body is not validated, so a
\* negative number is returned as it comes).
Counts == (0 .. MaxIndex) \cup {-1}

\* ---------------------------------------------------- get_total_records
\* The except clause of line 29.
Caught(e) == e \in {"RequestError", "JSONDecodeError", "KeyError"}

\* An exception of lines 23-26 that line 29 does not catch leaves the function.
Raises(resp) == resp /= "ok" /\ ~Caught(resp)

\* The value get_total_records returns when it returns (lines 28 and 31).
get_total_records(resp, n) == IF resp = "ok" THEN Some(n) ELSE None

\* ------------------------------------------------------------- planning
\* Skips as it would be if only an unknown count were skipped.
Skips_OnlyNone(total) == total = None

\* `if not total_records_for_license` (None and 0 are falsy).
Skips(total) == total = None \/ total = Some(0)

\* math.ceil(total / page_size) for page_size > 0.
num_pages(total, psize) == -((-total) \div psize)

\* PageOf as it would be if every page were taken to be full.
PageOf_FullLastPage(i, total, psize, cursor) ==
    LET api_offset == i * psize
        start_index == cursor + api_offset
        end_index == start_index + psize - 1
    IN  [api_offset |-> api_offset, start_index |-> start_index,
         end_index |-> end_index]

\* Lines 110-117: the page of loop index i.
PageOf(i, total, psize, cursor) ==
    LET api_offset == i * psize
        start_index == cursor + api_offset
        records_on_this_page ==
            IF psize <= total - api_offset THEN psize ELSE total - api_offset
        end_index == start_index + records_on_this_page - 1
    IN  [api_offset |-> api_offset, start_index |-> start_index,
         end_index |-> end_index]

\* The loop of lines 108-122 (range(n) is empty for n <= 0).
PlanPages(total, psize, cursor) ==
    LET n == num_pages(total, psize)
    IN  [k \in 1 .. (IF n > 0 THEN n ELSE 0) |-> PageOf(k - 1, total, psize, cursor)]

\* The records of the pages 1..w of the wave that were saved.
RECURSIVE SavedRecords(_)
SavedRecords(w) ==
    IF w = 0 THEN 0
    ELSE SavedRecords(w - 1) +
         (IF wk[w].st = "success"
          THEN tasks[w].end_index - tasks[w].start_index + 1 ELSE 0)

\* AdvanceCursor as it would be if names were earned by saved pages.
AdvanceCursor_BySaved(cursor, total) == cursor + SavedRecords(Len(wk))

\* Line 129.
AdvanceCursor(cursor, total) == cursor + total

\* --------------------------------------------------------------- workers
\* "raised" is a coroutine that an exception has left.
Terminal == {"success", "exhausted", "fallthrough", "cancelled", "raised"}

\* A coroutine of line 119 before it runs. Besides its position (st) and its
\* loop variable (attempt) it counts what it has done: client.get calls,
\* passes through the except branch, seconds given to asyncio.sleep, files
\* written, the final message of line 68, and where a cancellation met it.
NewWorker == [st |-> "waiting", attempt |-> 0, requests |-> 0, failed |-> 0,
              slept |-> 0, writes |-> 0, logged |-> FALSE, at |-> "none"]

Workers == DOMAIN wk

Holds(w) == wk[w].st \in {"requesting", "sleeping"}

\* CanAcquire as it would be if a worker could start only when no other
\* worker holds a permit (a lock around the wave instead of a counter).
CanAcquire_OnlyWhenIdle(value) == value = concurrency /\ value > 0

\* CanAcquire as it would be if the limiter let everyone through.
CanAcquire_Unbounded(value) == TRUE

\* asyncio.Semaphore.acquire does not block while the value is positive.
CanAcquire(value) == value > 0

\* AfterExit as it would be if only the return of line 61 gave the permit back.
AfterExit_LeakOnFailure(value, r) == IF r.st = "success" THEN value + 1 ELSE value

\* The semaphore value once the coroutine r has moved: leaving the
\* `async with semaphore` block of line 44, however it is left, releases.
AfterExit(value, r) == IF r.st \in Terminal THEN value + 1 ELSE value

\* Handles as it would be if line 62 caught the errors of the request only.
Handles_RequestOnly(kind) == kind = "request"

\* `except Exception` of line 62: the errors of client.get and
\* raise_for_status and the OSError of open and write are all Exceptions.
Handles(kind) == kind \in {"request", "open", "write"}

\* AllDone as it would be if the wait ended with the first finished task.
AllDone_FirstDone == \E w \in DOMAIN wk : wk[w].st \in Terminal

\* `await asyncio.gather(*tasks)` of line 126 returns when every task is done.
AllDone == \A w \in DOMAIN wk : wk[w].st \in Terminal

FileName(w) == <<tasks[w].start_index, tasks[w].end_index>>

\* open(filepath, "wb") creates or truncates; write fills the file.
Put(fs, name, content) ==
    [x \in DOMAIN fs \cup {name} |-> IF x = name THEN content ELSE fs[x]]

\* `for attempt in range(args.retries)` of line 53 has a pass for attempt.
InRange(attempt, n) == attempt < n

\* `if attempt < args.retries - 1` of line 64.
RetriesLeft(attempt, n) == attempt < n - 1

\* AfterFailedAttempt as it would be if the retry came without the delay.
AfterFailedAttempt_NoSleep(r, n) ==
    IF RetriesLeft(r.attempt, n)
    THEN [r EXCEPT !.st = "sleeping", !.failed = @ + 1]
    ELSE [r EXCEPT !.st = "exhausted", !.failed = @ + 1, !.logged = TRUE]

\* Lines 62-68: the except branch, for the coroutine r with retry budget n.
AfterFailedAttempt(r, n) ==
    IF RetriesLeft(r.attempt, n)
    THEN [r EXCEPT !.st = "sleeping", !.failed = @ + 1, !.slept = @ + retry_delay]
    ELSE [r EXCEPT !.st = "exhausted", !.failed = @ + 1, !.logged = TRUE]

\* ------------------------------------------------------------------ Init
\* The state at line 90: arguments parsed, the counter at 1, nothing fetched.
\* No semaphore exists before the first wave; its value is shown as the limit.
Init ==
    /\ page_size \in 1 .. MaxPageSize
    /\ concurrency \in 0 .. MaxConcurrency
    /\ retries \in 0 .. MaxRetries
    /\ pc = "probe"
    /\ lic = 1
    /\ file_naming_start_index = 1
    /\ total_records_for_license = None
    /\ response = "none"
    /\ semaphore = concurrency
    /\ tasks = <<>>
    /\ wk = <<>>
    /\ files = <<>>
    /\ hist = <<>>
    /\ faults = 0


\* ------------------------------------------------------------------ main
Entry(result, outcome, before, after, pages) ==
    [license |-> LICENSES[lic], result |-> result, outcome |-> outcome,
     before |-> before, after |-> after, pages |-> pages]

\* Where the for loop of line 90 goes after the license at position l.
NextPc(l) == IF l = Len(LICENSES) THEN "done" ELSE "probe"

\* One pass of the loop body from line 91 up to the await of line 126 (or to
\* the end of the body when nothing is awaited).
Probe(resp, n) ==
    /\ pc = "probe"
    /\ resp /= "ok" => faults < MaxFaults
    /\ resp = "ok" => file_naming_start_index + n <= MaxIndex + 1
    /\ faults' = IF resp = "ok" THEN faults ELSE faults + 1
    /\ response' = resp
    /\ LET total == get_total_records(resp, n)
           cursor == file_naming_start_index
       IN  IF Raises(resp)
           THEN \* the exception leaves main; asyncio.run re-raises it
                /\ pc' = "crashed"
                /\ UNCHANGED <<lic, file_naming_start_index, hist,
                               total_records_for_license, semaphore, tasks, wk>>
           ELSE IF Skips(total)
           THEN \* lines 96-98: continue
                /\ total_records_for_license' = total
                /\ hist' = Append(hist, Entry(total, "skipped", cursor, cursor, <<>>))
                /\ lic' = lic + 1
                /\ pc' = NextPc(lic)
                /\ UNCHANGED <<file_naming_start_index, semaphore, tasks, wk>>
           ELSE IF total = None
           THEN \* None > 9999 raises TypeError
                /\ pc' = "crashed"
                /\ total_records_for_license' = total
                /\ UNCHANGED <<lic, file_naming_start_index, hist, semaphore,
                               tasks, wk>>
           ELSE LET pages == PlanPages(Int_(total), page_size, cursor)
                IN  /\ total_records_for_license' = total
                    /\ semaphore' = concurrency
                    /\ IF pages /= <<>>
                       THEN \* lines 124-126: the wave starts
                            /\ tasks' = pages
                            /\ wk' = [w \in DOMAIN pages |-> NewWorker]
                            /\ pc' = "gather"
                            /\ UNCHANGED <<lic, file_naming_start_index, hist>>
                       ELSE \* no task: lines 129-130 at once
                            /\ file_naming_start_index' = AdvanceCursor(cursor, Int_(total))
                            /\ hist' = Append(hist, Entry(total, "finished", cursor,
                                                AdvanceCursor(cursor, Int_(total)), <<>>))
                            /\ lic' = lic + 1
                            /\ pc' = NextPc(lic)
                            /\ UNCHANGED <<tasks, wk>>
    /\ UNCHANGED <<page_size, concurrency, retries, files>>

\* asyncio.gather returns once every task is done; lines 129-130 follow.
Join ==
    /\ pc = "gather"
    /\ AllDone
    /\ LET cursor == file_naming_start_index
           after == AdvanceCursor(cursor, Int_(total_records_for_license))
       IN  /\ file_naming_start_index' = after
           /\ hist' = Append(hist, Entry(total_records_for_license, "finished",
                                         cursor, after, tasks))
    /\ lic' = lic + 1
    /\ pc' = NextPc(lic)
    /\ tasks' = <<>>
    /\ wk' = <<>>
    /\ UNCHANGED <<page_size, concurrency, retries, total_records_for_license,
                   response, semaphore, files, faults>>

\* -------------------------------------------------------- fetch_and_save
\* `async with semaphore` entered: lines 44-55 run up to the first await of
\* client.get; with an empty range(args.retries) the body falls through and
\* the permit is given back at once.
Acquire(w) ==
    /\ pc = "gather"
    /\ wk[w].st = "waiting"
    /\ CanAcquire(semaphore)
    /\ IF InRange(0, retries)
       THEN /\ semaphore' = semaphore - 1
            /\ wk' = [wk EXCEPT ![w].st = "requesting", ![w].requests = 1]
       ELSE /\ semaphore' = semaphore
            /\ wk' = [wk EXCEPT ![w].st = "fallthrough"]
    /\ UNCHANGED <<page_size, concurrency, retries, pc, lic,
                   file_naming_start_index, total_records_for_license, response,
                   tasks, files, hist, faults>>

\* Lines 55-61: the response is good and the file is written.
Success(w) ==
    /\ pc = "gather"
    /\ wk[w].st = "requesting"
    /\ files' = Put(files, FileName(w), "complete")
    /\ wk' = [wk EXCEPT ![w].st = "success", ![w].writes = @ + 1]
    /\ semaphore' = AfterExit(semaphore, wk'[w])
    /\ UNCHANGED <<page_size, concurrency, retries, pc, lic,
                   file_naming_start_index, total_records_for_license, response,
                   tasks, hist, faults>>

\* What an attempt that raises leaves on disk: client.get or raise_for_status
\* raise before open; open raises before the file exists; write raises after
\* open has created or truncated it.
AfterFailure(fs, name, kind) ==
    IF kind = "write" THEN Put(fs, name, "partial") ELSE fs

FailureKinds == {"request", "open", "write"}

\* What an exception that line 62 does not catch does to the wave: it leaves
\* the coroutine r, and the others are cancelled as main is left.
Escape(r, this) ==
    IF this THEN [r EXCEPT !.st = "raised"]
    ELSE IF r.st \in Terminal THEN r
    ELSE [r EXCEPT !.st = "cancelled", !.at = r.st]

\* Lines 62-68: an attempt raises. The except branch handles the exception;
\* one it did not catch would pass through gather and end main.
Failure(w, kind) ==
    /\ pc = "gather"
    /\ wk[w].st = "requesting"
    /\ faults < MaxFaults
    /\ faults' = faults + 1
    /\ files' = AfterFailure(files, FileName(w), kind)
    /\ IF Handles(kind)
       THEN /\ wk' = [wk EXCEPT ![w] = AfterFailedAttempt(wk[w], retries)]
            /\ semaphore' = AfterExit(semaphore, wk'[w])
            /\ pc' = pc
       ELSE /\ wk' = [v \in Workers |-> Escape(wk[v], v = w)]
            /\ semaphore' = semaphore + Cardinality({v \in Workers : Holds(v)})
            /\ pc' = "crashed"
    /\ UNCHANGED <<page_size, concurrency, retries, lic,
                   file_naming_start_index, total_records_for_license, response,
                   tasks, hist>>

\* asyncio.sleep returns: the next pass of the for loop issues the request
\* (were the range used up, the function would return).
Wake(w) ==
    /\ pc = "gather"
    /\ wk[w].st = "sleeping"
    /\ IF InRange(wk[w].attempt + 1, retries)
       THEN /\ wk' = [wk EXCEPT ![w].st = "requesting", ![w].attempt = @ + 1,
                                ![w].requests = @ + 1]
            /\ UNCHANGED semaphore
       ELSE /\ wk' = [wk EXCEPT ![w].st = "fallthrough"]
            /\ semaphore' = semaphore + 1
    /\ UNCHANGED <<page_size, concurrency, retries, pc, lic,
                   file_naming_start_index, total_records_for_license, response,
                   tasks, files, hist, faults>>

\* --------------------------------------------------------- cli_entrypoint
\* What cancellation does to one coroutine: CancelledError is raised at its
\* await (it is no Exception, so line 62 does not catch it).
Cancel(r) ==
    IF r.st \in Terminal THEN r ELSE [r EXCEPT !.st = "cancelled", !.at = r.st]

\* KeyboardInterrupt: asyncio.run cancels main and, through gather, every
\* task that is not done; line 138 then catches the interrupt.
Interrupt ==
    /\ pc \in {"probe", "gather"}
    /\ pc' = "interrupted"
    /\ wk' = [w \in Workers |-> Cancel(wk[w])]
    /\ semaphore' = semaphore + Cardinality({w \in Workers : Holds(w)})
    /\ UNCHANGED <<page_size, concurrency, retries, lic,
                   file_naming_start_index, total_records_for_license, response,
                   tasks, files, hist, faults>>

\* ------------------------------------------------------------------ Next
\* The steps of the program itself.
Run ==
    \/ \E resp \in {"ok"} \cup ProbeFailures, n \in Counts : Probe(resp, n)
    \/ Join
    \/ \E w \in Workers : Acquire(w)
    \/ \E w \in Workers : Success(w)
    \/ \E w \in Workers, kind \in FailureKinds : Failure(w, kind)
    \/ \E w \in Workers : Wake(w)

Next == Run \/ Interrupt

Spec == Init /\ [][Next]_vars


\* ============================================================ properties
Total == Int_(total_records_for_license)

\* The licenses the loop has left, followed by the one whose wave is running.
Seen ==
    IF tasks /= <<>>
    THEN Append(hist, Entry(total_records_for_license, "running",
                            file_naming_start_index, file_naming_start_index, tasks))
    ELSE hist

Positive(e) == e.result /= None /\ Int_(e.result) >= 1

\* The pages planned for t records at cursor c are as C1 says.
PlanOk(t, c, pages) ==
    LET n == Len(pages)
        size(i) == pages[i].end_index - pages[i].start_index + 1
    IN  /\ (n - 1) * page_size < t /\ t <= n * page_size
        /\ pages[1].start_index = c
        /\ pages[n].end_index = c + t - 1
        /\ \A i \in 1 .. n :
             /\ pages[i].api_offset = (i - 1) * page_size
             /\ size(i) >= 1
             /\ i < n => /\ pages[i + 1].start_index = pages[i].end_index + 1
                         /\ size(i) = page_size
             /\ i = n => IF page_size <= t - pages[i].api_offset
                         THEN size(i) = page_size
                         ELSE size(i) = t - pages[i].api_offset

\* C1: a wave planned for total >= 1 records with page_size >= 1 at cursor c
\* has exactly ceil(total/page_size) pages; page i (0-based) has api_offset
\* i*page_size; the first page starts at c, each next page starts right after
\* the end of the one before, no page is empty, the last page ends at
\* c+total-1 and holds min(page_size, total - api_offset) records. It is
\* stated of the wave that is running and of the license the loop has just
\* left (every license is one of the two in some state).
C1_PagePlan ==
    /\ tasks /= <<>> =>
         (Total >= 1 => PlanOk(Total, file_naming_start_index, tasks))
    /\ (tasks = <<>> /\ hist /= <<>>) =>
         LET e == hist[Len(hist)]
         IN  Positive(e) => PlanOk(Int_(e.result), e.before, e.pages)

\* A wave of two pages has been planned whose last page is short.
C1_Witness ==
    /\ pc = "gather"
    /\ Len(tasks) = 2
    /\ page_size = 2
    /\ tasks[2].end_index - tasks[2].start_index + 1 = 1

RECURSIVE SumCounts(_, _)
SumCounts(h, i) ==
    IF i = 0 THEN 0
    ELSE SumCounts(h, i - 1) + (IF h[i].result = None THEN 0 ELSE Int_(h[i].result))

\* C2: after the i-th license has been processed the cursor is
\* 1 + c1 + ... + ci, where cj is the count probed for license j (nothing for
\* an unknown count), whatever page fetches succeeded or failed.
C2_CursorIsSum ==
    /\ \A i \in 1 .. Len(hist) :
         /\ hist[i].after = 1 + SumCounts(hist, i)
         /\ hist[i].before = 1 + SumCounts(hist, i - 1)
    /\ file_naming_start_index = 1 + SumCounts(hist, Len(hist))

\* Two licenses are through, and a page of one of them was given up, so its
\* file is missing.
C2_Witness ==
    /\ retries > 0
    /\ Len(hist) >= 2
    /\ \E i \in 1 .. Len(hist) : \E j \in 1 .. Len(hist[i].pages) :
         /\ hist[i].outcome = "finished"
         /\ <<hist[i].pages[j].start_index, hist[i].pages[j].end_index>>
               \notin DOMAIN files
    /\ file_naming_start_index > 2


\* The file-name ranges planned so far in the run, each with the position of
\* its license among the licenses seen and of its page in the wave.
Ranges ==
    UNION {{[cat |-> k, page |-> i, lo |-> Seen[k].pages[i].start_index,
             hi |-> Seen[k].pages[i].end_index] :
              i \in 1 .. Len(Seen[k].pages)} : k \in 1 .. Len(Seen)}

\* C3: the file-name ranges of any two distinct pages planned in a run do not
\* overlap, and every range of a later license lies strictly above every
\* range of an earlier one.
C3_RangesDisjointIncreasing ==
    \A a, b \in Ranges :
        /\ (a.cat /= b.cat \/ a.page /= b.page) => (a.hi < b.lo \/ b.hi < a.lo)
        /\ a.cat < b.cat => a.hi < b.lo

\* Every license from the i-th on that the loop has left was skipped.
SkippedFrom(i) == \A k \in i .. Len(hist) : hist[k].outcome = "skipped"

\* C4: a license whose probe returned 0 or None is skipped: no page is
\* planned, no worker is started, the cursor keeps its value, and the next
\* license with a positive count that follows the skipped ones plans its
\* first page at that value. It is stated of the license the loop has just
\* left and of the wave that is running.
C4_SkipLeavesCursor ==
    /\ (tasks = <<>> /\ hist /= <<>>) =>
         LET e == hist[Len(hist)]
         IN  (e.result = None \/ e.result = Some(0)) =>
                /\ e.outcome = "skipped"
                /\ e.pages = <<>>
                /\ e.after = e.before
                /\ file_naming_start_index = e.before
                /\ Workers = {}
    /\ (tasks /= <<>> /\ Total >= 1) =>
         \A i \in 1 .. Len(hist) :
             SkippedFrom(i) => tasks[1].start_index = hist[i].before

\* After a license with pages, a license with count 0 and one with an unknown
\* count were skipped, and the next license has planned its first page.
C4_Witness ==
    /\ pc = "gather"
    /\ Len(hist) = 3
    /\ hist[1].pages /= <<>>
    /\ hist[2].result = Some(0)
    /\ hist[3].result = None
    /\ tasks[1].start_index = hist[2].before
    /\ hist[2].before > 1

Requesting == {w \in Workers : wk[w].st = "requesting"}
Holders == {w \in Workers : Holds(w)}

\* C5: at most args.concurrency workers have a request in flight, and at most
\* args.concurrency workers hold a permit of the semaphore.
C5_BoundedInFlight ==
    /\ Cardinality(Requesting) <= concurrency
    /\ Cardinality(Holders) <= concurrency

\* The limit binds: as many requests in flight as permits, and a worker waits.
C5_Witness ==
    /\ concurrency = 2
    /\ Cardinality(Requesting) = 2
    /\ \E w \in Workers : wk[w].st = "waiting"


\* What fetch_and_save can still do for worker w.
WorkerStep(w) ==
    \/ Acquire(w)
    \/ Success(w)
    \/ \E kind \in FailureKinds : Failure(w, kind)
    \/ Wake(w)

\* C6: with a retry budget of N >= 1, a worker that succeeds at its k-th
\* attempt after k-1 failed ones has issued exactly k <= N requests, has slept
\* retry_delay once per failed attempt and not after the success, has
\* written one file, which is complete on disk, and takes no further step.
C6_SuccessAfterRetries ==
    \A w \in Workers :
        (retries >= 1 /\ wk[w].st = "success") =>
            /\ wk[w].requests = wk[w].failed + 1
            /\ wk[w].requests <= retries
            /\ wk[w].slept = wk[w].failed * retry_delay
            /\ wk[w].writes = 1
            /\ FileName(w) \in DOMAIN files /\ files[FileName(w)] = "complete"
            /\ ~ENABLED WorkerStep(w)

\* A worker has succeeded at its second attempt.
C6_Witness ==
    \E w \in Workers : wk[w].st = "success" /\ wk[w].failed = 1 /\ wk[w].requests = 2

\* C7: with a retry budget of N >= 1, a worker all of whose attempts failed
\* has made exactly N attempts, has slept between them but not after the last
\* one, has logged the final failure, has returned, and no file exists under
\* the name of its page.
C7_ExhaustedLeavesNoFile ==
    \A w \in Workers :
        (retries >= 1 /\ wk[w].st \in Terminal \ {"cancelled"}
           /\ wk[w].writes = 0) =>
            /\ wk[w].st = "exhausted"
            /\ wk[w].requests = retries
            /\ wk[w].failed = retries
            /\ wk[w].slept = (retries - 1) * retry_delay
            /\ wk[w].logged
            /\ ~ENABLED WorkerStep(w)
            /\ FileName(w) \notin DOMAIN files


\* C8: when the probe request of a license fails, get_total_records returns
\* None instead of raising, the license is skipped with the cursor unchanged,
\* and the run goes on to the next license.
C8_ProbeFailureSkips ==
    response \in ProbeFailures =>
        /\ pc /= "crashed"
        /\ total_records_for_license = None
        /\ hist /= <<>>
        /\ hist[Len(hist)].outcome = "skipped"
        /\ hist[Len(hist)].after = hist[Len(hist)].before
        /\ file_naming_start_index = hist[Len(hist)].before
        /\ lic = Len(hist) + 1

PositiveArgs == page_size > 0 /\ concurrency > 0 /\ retries > 0

\* C9: with positive page_size, concurrency and retries and no interrupt, a
\* run that can take no further step has reached the completion report,
\* having processed every license of LICENSES once, in order.
C9_RunReachesReport ==
    (PositiveArgs /\ pc /= "interrupted" /\ ~ENABLED Run) =>
        /\ pc = "done"
        /\ Len(hist) = Len(LICENSES)
        /\ \A i \in 1 .. Len(hist) : hist[i].license = LICENSES[i]

\* C10: after an interrupt no further wave or license is started, and no
\* worker was stopped in the middle of a request: every worker that had a
\* request in flight finished that attempt.
C10_InFlightCompletes ==
    pc = "interrupted" =>
        /\ ~ENABLED Run
        /\ \A w \in Workers :
             ~(wk[w].st = "cancelled" /\ wk[w].at = "requesting")

\* C11: every file in the output directory is a complete successful response:
\* under a planned page name there is either no file or a whole one, never an
\* empty, truncated or partial file, also when the save step itself fails.
C11_FilesCompleteOrAbsent ==
    \A name \in DOMAIN files : files[name] = "complete"

\* The workers of the running wave that have not reached a terminal state.
Running == {w \in Workers : wk[w].st \notin Terminal}

\* The last record of the license history.
LastEntry(h) == h[Len(h)]

\* C12: the gather is a join barrier. While any worker of the wave is waiting,
\* requesting or sleeping, the cursor keeps the value it had when the wave was
\* planned; the cursor is changed only by a step of the license loop, taken
\* when every worker of the wave is terminal, and once per license: the step
\* records the license as finished and moves to the next one.
C12_JoinBarrier ==
    [][ /\ Running /= {} =>
              /\ file_naming_start_index = tasks[1].start_index
              /\ file_naming_start_index' = file_naming_start_index
        /\ file_naming_start_index' /= file_naming_start_index =>
              /\ Running = {}
              /\ Join \/ \E n \in Counts : Probe("ok", n)
              /\ lic' = lic + 1
              /\ Len(hist') = Len(hist) + 1
              /\ LastEntry(hist').outcome = "finished"
              /\ LastEntry(hist').before = file_naming_start_index
              /\ LastEntry(hist').after = file_naming_start_index'
        /\ (Len(hist') > Len(hist) /\ LastEntry(hist').outcome = "finished") =>
              file_naming_start_index' /= file_naming_start_index
      ]_vars

\* A second wave in which one worker is done and another sleeps before its
\* retry, the cursor still where the first wave's join left it.
C12_Witness ==
    /\ pc = "gather"
    /\ hist /= <<>>
    /\ LastEntry(hist).outcome = "finished"
    /\ LastEntry(hist).pages /= <<>>
    /\ file_naming_start_index = LastEntry(hist).after
    /\ file_naming_start_index > 1
    /\ \E w \in Workers : wk[w].st = "success"
    /\ \E w \in Workers : wk[w].st = "sleeping"

\* C13: waves of different licenses never overlap. The loop moves to another
\* license, and the workers of a wave are created, only when no worker of an
\* earlier wave is still waiting, requesting or sleeping; the workers that run
\* at any time are those of the pages planned for the current license, every
\* earlier license having been left.
C13_WavesDoNotOverlap ==
    [][ /\ (lic' /= lic \/ tasks' /= tasks) => Running = {}
        /\ Running' /= {} =>
              /\ pc' = "gather"
              /\ lic' <= Len(LICENSES)
              /\ Len(hist') = lic' - 1
              /\ DOMAIN wk' = DOMAIN tasks'
              /\ tasks' = PlanPages(Int_(total_records_for_license'),
                                    page_size', file_naming_start_index')
      ]_vars

\* The wave of a later license is running after the wave of an earlier
\* license has run and been joined.
C13_Witness ==
    /\ pc = "gather"
    /\ lic > 1
    /\ Running /= {}
    /\ \E i \in 1 .. Len(hist) : hist[i].pages /= <<>>

\* The positions a worker can have in a wave (a wave of t records has at most
\* t pages, and t is at most MaxIndex + 1 when the cursor is 0).
WorkerIds == 1 .. MaxIndex + 1

\* The run under the scheduling of the asyncio event loop: a coroutine that
\* is ready to run is run, a request that was issued returns, a sleep ends,
\* and main goes on when its await returns. Nothing forces an interrupt.
FairSpec ==
    /\ Spec
    /\ \A w \in WorkerIds : WF_vars(w \in Workers /\ WorkerStep(w))
    /\ WF_vars(Join)
    /\ WF_vars(\E resp \in {"ok"} \cup ProbeFailures, n \in Counts : Probe(resp, n))

\* Worker w has been launched and has not reached a terminal state.
Live(w) == w \in Workers /\ wk[w].st \notin Terminal

\* Worker w has ended as fetch_and_save ends: page saved, or attempts used up.
Ended(w) == w \in Workers /\ wk[w].st \in {"success", "exhausted"}

\* C14: no partial cancellation. With concurrency >= 1 and retries >= 1, under
\* fair scheduling and with every request returning, every launched worker
\* reaches its own terminal outcome (success or exhausted) unless the user
\* interrupts the run, also when other workers of the wave exhaust their
\* attempts; and a step of one worker never changes another worker.
C14_EveryWorkerEnds ==
    /\ [][\A w \in Workers : WorkerStep(w) =>
             /\ pc' = "gather"
             /\ DOMAIN wk' = DOMAIN wk
             /\ \A v \in Workers \ {w} : wk'[v] = wk[v]]_vars
    /\ \A w \in WorkerIds :
         (concurrency >= 1 /\ retries >= 1 /\ Live(w))
             ~> (Ended(w) \/ pc = "interrupted")

\* A worker has ended while another worker of the same wave has exhausted
\* its attempts, with one permit for the two of them.
C14_Witness ==
    /\ pc = "gather"
    /\ concurrency = 1
    /\ \E w \in Workers : wk[w].st = "exhausted"
    /\ \E w \in Workers : wk[w].st = "success" /\ wk[w].requests >= 1

\* C15: for every retry budget the arguments accept, a worker that has ended
\* (not one cut off by an interrupt) has ended in one of two ways: success,
\* with at least one request made and the page's file written, or exhausted
\* failure, with the final failure logged and no file written by a completed
\* save. No worker ends having made no attempt, written no file and logged no
\* failure.
C15_TwoOutcomes ==
    \A w \in Workers :
        (wk[w].st \in Terminal /\ wk[w].st /= "cancelled") =>
            \/ /\ wk[w].st = "success"
               /\ wk[w].requests >= 1
               /\ wk[w].writes = 1
            \/ /\ wk[w].st = "exhausted"
               /\ wk[w].requests >= 1
               /\ wk[w].logged
               /\ wk[w].writes = 0

\* C16: permit accounting. The permits held by workers and the free permits
\* always add up to the concurrency limit, and the free ones are never
\* negative. A worker takes one permit once, before its first attempt (a
\* waiting worker has made no attempt, and no worker goes back to waiting),
\* keeps it across its attempts and sleeps, and gives it back once, when it
\* becomes terminal: a step takes a permit exactly when a worker stops
\* waiting to run, and frees one per holder that becomes terminal. When the
\* wave is over every permit is free.
C16_PermitAccounting ==
    /\ [](/\ semaphore >= 0
          /\ semaphore + Cardinality(Holders) = concurrency
          /\ \A w \in Workers : wk[w].st = "waiting" => wk[w].requests = 0
          /\ Running = {} => semaphore = concurrency)
    /\ [][DOMAIN wk' = DOMAIN wk =>
            /\ \A w \in Workers :
                 /\ wk'[w].st = "waiting" => wk[w].st = "waiting"
                 /\ Holds(w) => wk'[w].st \in {"requesting", "sleeping"} \cup Terminal
                 /\ wk[w].st \in Terminal => wk'[w].st = wk[w].st
            /\ semaphore' = semaphore
                 - Cardinality({w \in Workers : ~Holds(w) /\ wk'[w].st \notin Terminal
                                                  /\ wk'[w].st /= "waiting"})
                 + Cardinality({w \in Workers : Holds(w) /\ wk'[w].st \in Terminal})
         ]_vars

\* One worker sleeps between two attempts with the only permit while another
\* worker waits, and a third has already given its permit back.
C16_Witness ==
    /\ pc = "gather"
    /\ concurrency = 1
    /\ semaphore = 0
    /\ \E w \in Workers : wk[w].st = "sleeping" /\ wk[w].requests = 1
    /\ \E w \in Workers : wk[w].st = "waiting"
    /\ \E w \in Workers : wk[w].st = "success"

\* C17 as the specification states it: whenever some worker sleeps between
\* two attempts, every other worker of the wave that is not terminal can take
\* its next step (acquire a permit, issue or finish its request).
C17_SleeperBlocksNoOne ==
    \A s \in Workers : wk[s].st = "sleeping" =>
        \A w \in Workers \ {s} :
            wk[w].st \notin Terminal => ENABLED WorkerStep(w)

\* C17: a sleeping worker yields the event loop but keeps its permit. Whenever
\* some worker sleeps between two attempts, every other worker that holds a
\* permit can take its next step, and a worker waiting for a permit can
\* acquire one exactly when fewer than args.concurrency workers (sleepers
\* included) hold one.
C17_SleeperYieldsLoopNotPermit ==
    \A s \in Workers : wk[s].st = "sleeping" =>
        /\ ENABLED Wake(s)
        /\ \A w \in Workers \ {s} :
             /\ Holds(w) => ENABLED WorkerStep(w)
             /\ wk[w].st = "waiting" =>
                  (ENABLED Acquire(w) <=> Cardinality(Holders) < concurrency)

\* One worker sleeps with a permit while another worker waits and a permit
\* is free for it.
C17_Witness ==
    /\ pc = "gather"
    /\ concurrency = 2
    /\ semaphore = 1
    /\ \E w \in Workers : wk[w].st = "sleeping"
    /\ \E w \in Workers : wk[w].st = "waiting"

\* The attempts of retry budget n that are left to a coroutine r whose
\* current attempt has failed.
AttemptsRemain(r, n) == r.attempt + 1 < n

\* C18: an attempt that fails while the page is saved (open or write raises
\* after a successful response) is handled like a failed request. It counts
\* as one failed attempt of the same budget; when attempts remain the worker
\* sleeps retry_delay and its next step is a new request, otherwise it ends as
\* an exhausted failure with the final failure logged; the exception reaches
\* neither another worker nor main, and the worker's permit is treated as
\* after a failed request.
C18_SaveFailureIsAttemptFailure ==
    [][\A w \in Workers :
         /\ (Failure(w, "open") \/ Failure(w, "write")) =>
              /\ pc' = "gather"
              /\ DOMAIN wk' = DOMAIN wk
              /\ \A v \in Workers \ {w} : wk'[v] = wk[v]
              /\ wk'[w].failed = wk[w].failed + 1
              /\ wk'[w].attempt = wk[w].attempt
              /\ wk'[w].requests = wk[w].requests
              /\ IF AttemptsRemain(wk[w], retries)
                 THEN /\ wk'[w].st = "sleeping"
                      /\ wk'[w].slept = wk[w].slept + retry_delay
                      /\ ~wk'[w].logged
                      /\ semaphore' = semaphore
                 ELSE /\ wk'[w].st = "exhausted"
                      /\ wk'[w].slept = wk[w].slept
                      /\ wk'[w].logged
                      /\ semaphore' = semaphore + 1
         /\ Wake(w) =>
              /\ wk'[w].st = "requesting"
              /\ wk'[w].attempt = wk[w].attempt + 1
              /\ wk'[w].requests = wk[w].requests + 1
      ]_vars

\* A worker whose save failed at the write has slept and issued its second
\* request, the wave still running.
C18_Witness ==
    /\ pc = "gather"
    /\ \E w \in Workers :
         /\ wk[w].st = "requesting"
         /\ wk[w].requests = 2
         /\ wk[w].failed = 1
         /\ wk[w].slept = retry_delay
         /\ FileName(w) \in DOMAIN files
         /\ files[FileName(w)] = "partial"

\* C19: a wave cannot deadlock, whatever concurrency the semaphore was built
\* with: whenever some worker of the running wave is not terminal, at least
\* one worker of the wave can take a step (it holds a permit or can acquire
\* one).
C19_WaveDeadlockFree ==
    (pc = "gather" /\ Running /= {}) => \E w \in Workers : ENABLED WorkerStep(w)

\* C20: the cursor is at least 1 in every state and never decreases, whatever
\* get_total_records returns, and a count that is not a positive integer is
\* never added to it: every license the loop has left, left the cursor where
\* it was or, for a count of at least 1, moved it forward.
C20_CursorMonotonic ==
    /\ file_naming_start_index >= 1
    /\ \A i \in 1 .. Len(hist) :
         /\ hist[i].after >= hist[i].before
         /\ hist[i].after /= hist[i].before => Positive(hist[i])

====
